---- MODULE Spec2Model ----
(***************************************************************************)
(* Model of the travel assistant graph of Multi-Agent.py: the four nodes   *)
(* travel_assistant (call_model), booking_check (confirm_booking),         *)
(* summarize (summarize_messages) and Memory_Extraction (write_memory),    *)
(* the edges of the StateGraph, the MessagesState channel with its         *)
(* add_messages reducer, and the BaseStore holding the travel preferences. *)
(* The language model and the trustcall extractor are the environment:     *)
(* their replies are chosen nondeterministically from small sets, and      *)
(* either call may raise.                                                  *)
(***************************************************************************)
EXTENDS Integers, Sequences, FiniteSets, TLC

VARIABLES
    store,            \* BaseStore: <<namespace, key>> -> stored value (a dict)
    pc,               \* per turn: the node about to run, or idle / END / error
    user,             \* per turn: configurable.user_id
    messages,         \* per turn: state["messages"] (the MessagesState channel)
    existing_memory,  \* per turn: write_memory's local existing_memory
    result,           \* per turn: write_memory's local result (extractor output)
    hist              \* per turn: history of the turn (observation only)

vars == <<store, pc, user, messages, existing_memory, result, hist>>

----------------------------------------------------------------------------
(* Bounds of the model *)

\* longest conversation the caller hands to a turn
MaxInitLen == 25

(* Constants of the program *)

\* len(state["messages"]) > 25, in the summarizer and in the branch guard
SummaryThreshold == 25
\* state["messages"][-2:], the messages the summarizer returns with the summary
KeepLast == 2

Turns == {1, 2}
Users == {"u1", "u2"}

NoValue == [kind |-> "None"]

----------------------------------------------------------------------------
(* Text: contents are sequences of characters *)

BookFlight == <<"I"," ","w","a","n","t"," ","t","o"," ","b","o","o","k"," ","a"," ","f","l","i","g","h","t">>
Weather == <<"W","h","a","t","'","s"," ","t","h","e"," ","w","e","a","t","h","e","r","?">>
Bookshelf == <<"A"," ","b","o","o","k","s","h","e","l","f">>
ReserveUpper == <<"P","l","e","a","s","e"," ","R","E","S","E","R","V","E">>
Filler == <<"h","i">>
SummaryText == <<"P","a","r","i","s"," ","i","n"," ","M","a","y">>

\* the replies the chat model may give to the travel prompt
Replies == {BookFlight, Weather, Bookshelf, ReserveUpper}
\* the contents the chat model may give to the summary prompt
Summaries == {SummaryText}

CLARIFICATION == <<"P","l","e","a","s","e"," ","c","o","n","f","i","r","m",":","\n","1","."," ","T","r","a","v","e","l"," ","d","a","t","e","s","\n","2","."," ","G","u","e","s","t"," ","d","e","t","a","i","l","s","\n","3","."," ","P","a","y","m","e","n","t"," ","m","e","t","h","o","d">>
TRIP_SUMMARY_PREFIX == <<"T","R","I","P"," ","S","U","M","M","A","R","Y",":","\n">>
book == <<"b","o","o","k">>
reserve == <<"r","e","s","e","r","v","e">>

UpperCase == <<"A","B","C","D","E","F","G","H","I","J","K","L","M","N","O","P","Q","R","S","T","U","V","W","X","Y","Z">>
LowerCase == <<"a","b","c","d","e","f","g","h","i","j","k","l","m","n","o","p","q","r","s","t","u","v","w","x","y","z">>

\* str.lower() on one character
LowerChar(c) ==
    IF \E i \in DOMAIN UpperCase : UpperCase[i] = c
    THEN LowerCase[CHOOSE i \in DOMAIN UpperCase : UpperCase[i] = c]
    ELSE c

\* str.lower()
lower(s) == [i \in DOMAIN s |-> LowerChar(s[i])]

\* sub in s
Contains(sub, s) ==
    \E i \in 1..(Len(s) - Len(sub) + 1) : SubSeq(s, i, i + Len(sub) - 1) = sub

----------------------------------------------------------------------------
(* Messages and the add_messages reducer of MessagesState *)

\* a message whose id is 0 has no id yet (id = None)
SystemMessage(c) == [id |-> 0, type |-> "system", content |-> c]
HumanMessage(i, c) == [id |-> i, type |-> "human", content |-> c]
AIMessage(i, c) == [id |-> i, type |-> "ai", content |-> c]

MaxOf(S) == IF S = {} THEN 0 ELSE CHOOSE x \in S : \A y \in S : y <= x

Ids(msgs) == {msgs[i].id : i \in DOMAIN msgs}

\* an identifier no message of either list carries
FreshId(left, right) == MaxOf(Ids(left) \cup Ids(right)) + 1

\* "assign missing ids": every message without an id gets a fresh one (a
\* uuid4): one that no message of either list carries
AssignIds(left, right) ==
    LET base == MaxOf(Ids(left) \cup Ids(right))
    IN  [i \in DOMAIN right |->
            IF right[i].id = 0
            THEN [right[i] EXCEPT !.id = base + Cardinality({k \in 1..i : right[k].id = 0})]
            ELSE right[i]]

IndexById(msgs, id) ==
    IF \E i \in DOMAIN msgs : msgs[i].id = id
    THEN CHOOSE i \in DOMAIN msgs : msgs[i].id = id
    ELSE 0

\* the merge loop: a message whose id is known replaces the message holding
\* that id, in place; any other message is appended
RECURSIVE Merge(_, _)
Merge(merged, right) ==
    IF right = <<>>
    THEN merged
    ELSE LET m == Head(right)
             idx == IndexById(merged, m.id)
         IN  Merge(IF idx # 0 THEN [merged EXCEPT ![idx] = m] ELSE Append(merged, m),
                   Tail(right))

\* a reducer that appends whatever a node returns
add_messages_append(left, right) == left \o AssignIds(left, right)

\* a channel without a reducer: what a node returns replaces the list
add_messages_overwrite(left, right) == right

add_messages(left, right) == Merge(left, AssignIds(left, right))

\* a slice from the front: state["messages"][:n]
FirstN(msgs, n) == SubSeq(msgs, 1, IF Len(msgs) > n THEN n ELSE Len(msgs))

\* state["messages"][-n:]
LastN(msgs, n) == SubSeq(msgs, IF Len(msgs) > n THEN Len(msgs) - n + 1 ELSE 1, Len(msgs))

----------------------------------------------------------------------------
(* TravelPreferences, the extractor's candidates and the store *)

\* the fields other than visited_destinations, as the extractor fills them
ProfileA ==
    [preferred_accommodation_types |-> <<"hostel">>,
     dietary_restrictions |-> <<"vegetarian">>,
     budget_range |-> "$100-200",
     travel_style |-> "backpacking"]
ProfileB ==
    [preferred_accommodation_types |-> <<"boutique">>,
     dietary_restrictions |-> <<>>,
     budget_range |-> "$300-400",
     travel_style |-> "luxury"]
Profiles == {ProfileA, ProfileB}

\* List[str] values of visited_destinations (duplicates allowed)
VdLists ==
    {<<>>, <<"Paris">>, <<"Paris", "Tokyo">>, <<"Paris", "Paris">>}

\* a validated TravelPreferences instance
TravelPreferences(p, vd) ==
    [cls |-> "TravelPreferences", fields |-> p @@ ("visited_destinations" :> vd)]
\* an instance built without visited_destinations: model_dump() omits the key
PartialPreferences(p) == [cls |-> "TravelPreferences", fields |-> p]
\* a candidate that is a plain dict, not a model: it has no model_dump
DictCandidate(p) == [cls |-> "dict", fields |-> p]
\* a candidate whose model_dump() raises KeyError
BrokenCandidate == [cls |-> "broken", fields |-> ProfileA]

ValidCandidates == {TravelPreferences(p, vd) : p \in Profiles, vd \in VdLists}
Malformed == {PartialPreferences(ProfileA), DictCandidate(ProfileA), BrokenCandidate}
Candidates == ValidCandidates \cup Malformed
\* a second candidate, which write_memory never reads
SecondCandidate == TravelPreferences(ProfileB, <<"Tokyo">>)

\* result.get("responses") of trustcall_extractor.invoke
Responses ==
    {<<>>} \cup {<<c>> : c \in Candidates}
        \cup {<<c, SecondCandidate>> : c \in {BrokenCandidate, TravelPreferences(ProfileA, <<"Paris">>)}}

\* BaseModel.model_dump()
model_dump(c) ==
    CASE c.cls = "TravelPreferences" -> [raises |-> "no", value |-> c.fields]
      [] c.cls = "dict" -> [raises |-> "AttributeError", value |-> c.fields]
      [] OTHER -> [raises |-> "KeyError", value |-> c.fields]

\* one namespace shared by all users
NamespaceShared(u) == <<"travel_memory", "u1">>

\* namespace = ("travel_memory", user_id)
Namespace(u) == <<"travel_memory", u>>
TRAVEL_PREFS == "travel_prefs"

\* store.get(namespace, key): an Item, or None
store_get(s, ns, key) ==
    IF <<ns, key>> \in DOMAIN s THEN [kind |-> "Item", value |-> s[<<ns, key>>]] ELSE NoValue

\* store.put(namespace, key, value)
store_put(s, ns, key, value) ==
    [k \in DOMAIN s \cup {<<ns, key>>} |-> IF k = <<ns, key>> THEN value ELSE s[k]]

\* dict.get(key, default)
DictGet(d, key, default) == IF key \in DOMAIN d THEN d[key] ELSE default

\* d[key] = value
DictSet(d, key, value) == [k \in DOMAIN d \cup {key} |-> IF k = key THEN value ELSE d[k]]

Range(f) == {f[i] : i \in DOMAIN f}

\* list(set(xs)): the distinct elements of xs, in any order
ListOfSet(xs) ==
    {l \in [1..Cardinality(Range(xs)) -> Range(xs)] : Range(l) = Range(xs)}

\* a merge that keeps duplicates: existing + new
MergeVisitedConcat(existing, new) == {existing \o new}

\* a merge that keeps the extracted list only
MergeVisitedReplace(existing, new) == {new}

\* list(set(existing + new))
MergeVisited(existing, new) == ListOfSet(existing \o new)

----------------------------------------------------------------------------
(* The turn: state, history and the graph's nodes *)

Nodes == {"travel_assistant", "booking_check", "summarize", "Memory_Extraction"}

\* the conversations the caller hands to graph.invoke: n messages, human and
\* ai in turn, the last one the user's
InitLens == {1} \cup {n \in 1..MaxInitLen : n >= MaxInitLen - 1}
Conversation(n, last) ==
    [i \in 1..n |->
        IF i = n THEN HumanMessage(i, last)
        ELSE IF (n - i) % 2 = 0 THEN HumanMessage(i, Filler) ELSE AIMessage(i, Filler)]
UserTexts == {BookFlight}

\* trace: the nodes run so far; received: the length of the message list each
\* of them received; before: the message list the last of them received;
\* puts, calls: store.put and model.invoke calls made; errAt: the node that
\* raised; startStore, startMessages: the store and the messages at the start;
\* accessed: the <<namespace, key>> pairs handed to store.get and store.put;
\* reply: the response call_model returned
NoHist ==
    [trace |-> <<>>, received |-> <<>>, puts |-> 0, calls |-> 0, errAt |-> "none",
     accessed |-> {}, reply |-> NoValue,
     startStore |-> <<>>, startMessages |-> <<>>, before |-> <<>>,
     lastPut |-> NoValue, logged |-> FALSE]

\* the history after node n ran on the state it received
Ran(h, n, msgs) ==
    [h EXCEPT !.trace = Append(@, n), !.received = Append(@, Len(msgs)), !.before = msgs]

Init ==
    /\ store = <<>>
    /\ pc = [t \in Turns |-> "idle"]
    /\ user = [t \in Turns |-> "u1"]
    /\ messages = [t \in Turns |-> <<>>]
    /\ existing_memory = [t \in Turns |-> NoValue]
    /\ result = [t \in Turns |-> <<>>]
    /\ hist = [t \in Turns |-> NoHist]

\* graph.invoke({"messages": ...}, config): the input goes through the reducer,
\* then the edge START -> travel_assistant
StartTurn(t) ==
    /\ pc[t] \in {"idle", "END", "error"}
    /\ \E u \in Users, n \in InitLens, last \in UserTexts :
          LET input == add_messages(<<>>, Conversation(n, last))
          IN  /\ user' = [user EXCEPT ![t] = u]
              /\ messages' = [messages EXCEPT ![t] = input]
              /\ hist' = [hist EXCEPT ![t] =
                            [NoHist EXCEPT !.startStore = store, !.startMessages = input]]
    /\ pc' = [pc EXCEPT ![t] = "travel_assistant"]
    /\ existing_memory' = [existing_memory EXCEPT ![t] = NoValue]
    /\ result' = [result EXCEPT ![t] = <<>>]
    /\ UNCHANGED store

\* a call_model that stores a record of its own
call_model_storing(t) ==
    /\ pc[t] = "travel_assistant"
    /\ store' = store_put(store, Namespace(user[t]), TRAVEL_PREFS, ProfileA)
    /\ messages' = [messages EXCEPT ![t] =
                      add_messages(@, <<AIMessage(FreshId(messages[t], <<>>), Weather)>>)]
    /\ pc' = [pc EXCEPT ![t] = "booking_check"]
    /\ hist' = [hist EXCEPT ![t] =
                  [Ran(@, "travel_assistant", messages[t]) EXCEPT !.calls = @ + 1]]
    /\ UNCHANGED <<user, existing_memory, result>>

\* call_model: reads the store (the record only fills the prompt), calls the
\* model, returns {"messages": [response]}; then the edge
\* travel_assistant -> booking_check
call_model(t) ==
    /\ pc[t] = "travel_assistant"
    /\ LET existing == store_get(store, Namespace(user[t]), TRAVEL_PREFS)
           h == [Ran(hist[t], "travel_assistant", messages[t]) EXCEPT
                    !.calls = @ + 1,
                    !.accessed = @ \cup {<<Namespace(user[t]), TRAVEL_PREFS>>}]
       IN  \/ \* model.invoke raises
              /\ pc' = [pc EXCEPT ![t] = "error"]
              /\ hist' = [hist EXCEPT ![t] = [h EXCEPT !.errAt = "travel_assistant"]]
              /\ UNCHANGED messages
           \/ \E reply \in Replies :
                LET response == AIMessage(FreshId(messages[t], <<>>), reply)
                IN  /\ messages' = [messages EXCEPT ![t] = add_messages(@, <<response>>)]
                    /\ pc' = [pc EXCEPT ![t] = "booking_check"]
                    /\ hist' = [hist EXCEPT ![t] = [h EXCEPT !.reply = response]]
    /\ UNCHANGED <<store, user, existing_memory, result>>

\* a check that forgets "reserve"
BookingIntentBookOnly(last_message) == Contains(book, last_message)

\* "book" in last_message or "reserve" in last_message
BookingIntent(last_message) ==
    Contains(book, last_message) \/ Contains(reserve, last_message)

\* a graph whose second branch leads back to the assistant
RouteCycle(msgs) ==
    IF Len(msgs) > SummaryThreshold THEN "summarize" ELSE "travel_assistant"

\* a guard that also takes the branch at exactly 25 messages
RouteAtThreshold(msgs) ==
    IF Len(msgs) >= SummaryThreshold THEN "summarize" ELSE "Memory_Extraction"

\* the conditional edge after booking_check
Route(msgs) ==
    IF Len(msgs) > SummaryThreshold THEN "summarize" ELSE "Memory_Extraction"

\* what confirm_booking returns: the clarification, or the state itself
confirm_booking_update(msgs) ==
    LET last_message == lower(msgs[Len(msgs)].content)
    IN  IF BookingIntent(last_message)
        THEN <<SystemMessage(CLARIFICATION)>>
        ELSE msgs

\* confirm_booking, then the conditional edge
confirm_booking(t) ==
    /\ pc[t] = "booking_check"
    /\ LET after == add_messages(messages[t], confirm_booking_update(messages[t]))
       IN  /\ messages' = [messages EXCEPT ![t] = after]
           /\ pc' = [pc EXCEPT ![t] = Route(after)]
    /\ hist' = [hist EXCEPT ![t] = Ran(@, "booking_check", messages[t])]
    /\ UNCHANGED <<store, user, existing_memory, result>>

\* a summarizer that fires at 25 messages already
NeedsSummaryAtThreshold(msgs) == Len(msgs) >= SummaryThreshold

\* a summarizer whose test is one message stricter than the guard's
NeedsSummaryLate(msgs) == Len(msgs) > SummaryThreshold + 1

\* len(state["messages"]) > 25
NeedsSummary(msgs) == Len(msgs) > SummaryThreshold

\* the update summarize_messages returns when it summarizes
summary_update(msgs, content) ==
    <<SystemMessage(TRIP_SUMMARY_PREFIX \o content)>> \o LastN(msgs, KeepLast)

\* a summarizer that swallows the failure of its model call and goes on
summarize_messages_caught(t) ==
    /\ pc[t] = "summarize"
    /\ pc' = [pc EXCEPT ![t] = "Memory_Extraction"]
    /\ hist' = [hist EXCEPT ![t] =
                  [Ran(@, "summarize", messages[t]) EXCEPT !.errAt = "summarize", !.calls = @ + 1]]
    /\ UNCHANGED <<store, user, messages, existing_memory, result>>

\* summarize_messages, then the edge summarize -> Memory_Extraction; the
\* model's reply to the instruction and the last 25 messages is any of Summaries
summarize_messages(t) ==
    /\ pc[t] = "summarize"
    /\ LET h == Ran(hist[t], "summarize", messages[t])
       IN  IF NeedsSummary(messages[t])
           THEN \/ \* model.invoke raises
                   /\ pc' = [pc EXCEPT ![t] = "error"]
                   /\ hist' = [hist EXCEPT ![t] =
                                 [h EXCEPT !.errAt = "summarize", !.calls = @ + 1]]
                   /\ UNCHANGED messages
                \/ \E content \in Summaries :
                     /\ messages' = [messages EXCEPT ![t] =
                                       add_messages(@, summary_update(@, content))]
                     /\ pc' = [pc EXCEPT ![t] = "Memory_Extraction"]
                     /\ hist' = [hist EXCEPT ![t] = [h EXCEPT !.calls = @ + 1]]
           ELSE \* return None: no update
                /\ pc' = [pc EXCEPT ![t] = "Memory_Extraction"]
                /\ hist' = [hist EXCEPT ![t] = h]
                /\ UNCHANGED messages
    /\ UNCHANGED <<store, user, existing_memory, result>>

\* write_memory up to the extractor's return: store.get, then
\* trustcall_extractor.invoke, which raises or returns its result
write_memory_get(t) ==
    /\ pc[t] = "Memory_Extraction"
    /\ existing_memory' = [existing_memory EXCEPT ![t] =
                             store_get(store, Namespace(user[t]), TRAVEL_PREFS)]
    /\ LET h == [Ran(hist[t], "Memory_Extraction", messages[t]) EXCEPT
                    !.accessed = @ \cup {<<Namespace(user[t]), TRAVEL_PREFS>>}]
       IN  \/ \* trustcall_extractor.invoke raises
              /\ pc' = [pc EXCEPT ![t] = "error"]
              /\ hist' = [hist EXCEPT ![t] = [h EXCEPT !.errAt = "Memory_Extraction"]]
              /\ UNCHANGED result
           \/ \E responses \in Responses :
                /\ result' = [result EXCEPT ![t] = responses]
                /\ pc' = [pc EXCEPT ![t] = "Memory_Extraction:put"]
                /\ hist' = [hist EXCEPT ![t] = h]
    /\ UNCHANGED <<store, user, messages>>

\* an extraction that reads the last candidate
FirstResponseLast(responses) == responses[Len(responses)]

\* result["responses"][0]
FirstResponse(responses) == responses[1]

\* an update that stores the extraction as it came
updated_prefs_unmerged(existing, dumped) == {dumped}

\* an update that keeps the fields the prior record already has
updated_prefs_keep_prior(existing, dumped) ==
    IF existing.kind = "Item"
    THEN {[k \in DOMAIN dumped |->
            IF k \in DOMAIN existing.value THEN existing.value[k] ELSE dumped[k]]}
    ELSE {dumped}

\* the dicts the try block may hand to store.put: the dumped candidate, its
\* visited_destinations merged with the record read before the extraction
updated_prefs(existing, dumped) ==
    IF existing.kind = "Item" /\ "visited_destinations" \in DOMAIN existing.value
    THEN {DictSet(dumped, "visited_destinations", vd) :
            vd \in MergeVisited(existing.value["visited_destinations"],
                                DictGet(dumped, "visited_destinations", <<>>))}
    ELSE {dumped}

\* a merge that reads the record again at the time of the put
PriorRecordReread(t) == store_get(store, Namespace(user[t]), TRAVEL_PREFS)

\* existing_memory in the try block: the local bound by the store.get at the
\* top of write_memory, before the extractor ran
PriorRecord(t) == existing_memory[t]

\* write_memory from the extractor's return on, then the edge
\* Memory_Extraction -> END
write_memory_put(t) ==
    /\ pc[t] = "Memory_Extraction:put"
    /\ LET returned == add_messages(messages[t], messages[t])
           dumped == model_dump(FirstResponse(result[t]))
       IN  IF result[t] = <<>>
           THEN \* not result.get("responses"): return state
                /\ messages' = [messages EXCEPT ![t] = returned]
                /\ pc' = [pc EXCEPT ![t] = "END"]
                /\ UNCHANGED <<store, hist>>
           ELSE CASE dumped.raises = "KeyError" ->
                       \* except (IndexError, KeyError): print, return state
                       /\ messages' = [messages EXCEPT ![t] = returned]
                       /\ pc' = [pc EXCEPT ![t] = "END"]
                       /\ hist' = [hist EXCEPT ![t].logged = TRUE]
                       /\ UNCHANGED store
                  [] dumped.raises = "AttributeError" ->
                       \* not caught: the turn ends with the exception
                       /\ pc' = [pc EXCEPT ![t] = "error"]
                       /\ hist' = [hist EXCEPT ![t].errAt = "Memory_Extraction"]
                       /\ UNCHANGED <<store, messages>>
                  [] OTHER ->
                       \E prefs \in updated_prefs(PriorRecord(t), dumped.value) :
                         /\ store' = store_put(store, Namespace(user[t]), TRAVEL_PREFS, prefs)
                         /\ messages' = [messages EXCEPT ![t] = returned]
                         /\ pc' = [pc EXCEPT ![t] = "END"]
                         /\ hist' = [hist EXCEPT
                                       ![t].puts = @ + 1, ![t].lastPut = prefs,
                                       ![t].accessed = @ \cup {<<Namespace(user[t]), TRAVEL_PREFS>>}]
    /\ UNCHANGED <<user, existing_memory, result>>

\* what graph.invoke hands back to the caller of the turn: the final state at
\* END; nothing when a node raised, or while the turn runs
Returned(t) == IF pc[t] = "END" THEN messages[t] ELSE <<>>

----------------------------------------------------------------------------
(* Specifications *)

\* one step of turn t
Step(t) ==
    \/ call_model(t)
    \/ confirm_booking(t)
    \/ summarize_messages(t)
    \/ write_memory_get(t)
    \/ write_memory_put(t)

\* turns of one caller, one after the other
Next == StartTurn(1) \/ Step(1)

Spec == Init /\ [][Next]_vars

\* one node applied to a state the caller chooses: any node, any conversation
InitNode ==
    /\ store = <<>>
    /\ user = [t \in Turns |-> "u1"]
    /\ existing_memory = [t \in Turns |-> NoValue]
    /\ result = [t \in Turns |-> <<>>]
    /\ \E node \in Nodes, n \in 1..(MaxInitLen + 2) :
          LET input == add_messages(<<>>, Conversation(n, BookFlight))
          IN  /\ pc = [t \in Turns |-> IF t = 1 THEN node ELSE "idle"]
              /\ messages = [t \in Turns |-> IF t = 1 THEN input ELSE <<>>]
              /\ hist = [t \in Turns |->
                            IF t = 1 THEN [NoHist EXCEPT !.startMessages = input]
                            ELSE NoHist]

NodeNext == Step(1)

NodeSpec == InitNode /\ [][NodeNext]_vars

\* two turns the hosting caller invokes at the same time for one user, each
\* on a conversation of its own (short, or long enough to be summarized); the
\* store is empty or holds the user's record of an earlier turn; the nodes of
\* the two turns interleave
StoredBefore == TravelPreferences(ProfileA, <<"Paris">>).fields
InitConc ==
    /\ store \in {<<>>, store_put(<<>>, Namespace("u1"), TRAVEL_PREFS, StoredBefore)}
    /\ pc = [t \in Turns |-> "travel_assistant"]
    /\ user = [t \in Turns |-> "u1"]
    /\ existing_memory = [t \in Turns |-> NoValue]
    /\ result = [t \in Turns |-> <<>>]
    /\ \E n \in [Turns -> {1, MaxInitLen}] :
          LET input(t) == add_messages(<<>>, Conversation(n[t], BookFlight))
          IN  /\ messages = [t \in Turns |-> input(t)]
              /\ hist = [t \in Turns |->
                            [NoHist EXCEPT !.startStore = store, !.startMessages = input(t)]]

ConcNext == \E t \in Turns : Step(t)

ConcSpec == InitConc /\ [][ConcNext]_vars

----------------------------------------------------------------------------
(* Properties *)

VD == "visited_destinations"
Key(u) == <<Namespace(u), TRAVEL_PREFS>>
LastNode(t) == IF hist[t].trace = <<>> THEN "none" ELSE hist[t].trace[Len(hist[t].trace)]
Finished(t) == pc[t] \in {"END", "error"}
\* the destinations a stored dict holds (none when it has no such field)
VdSet(d) == IF VD \in DOMAIN d THEN Range(d[VD]) ELSE {}
\* the turn wrote candidate c over the prior record r it had read
Wrote(t) == pc[t] = "END" /\ hist[t].puts = 1
HadVisited(t) ==
    existing_memory[t].kind = "Item" /\ VD \in DOMAIN existing_memory[t].value

\* C1: when the record read before the extraction has visited_destinations,
\* the record write_memory stores holds exactly the union of the prior and the
\* first candidate's destinations, each of them once.
C1_MergedVisitedIsUnion ==
    \A t \in Turns :
        (Wrote(t) /\ HadVisited(t)) =>
            LET prior == existing_memory[t].value[VD]
                new == IF VD \in DOMAIN result[t][1].fields
                       THEN result[t][1].fields[VD] ELSE <<>>
                written == store[Key(user[t])]
            IN  /\ VD \in DOMAIN written
                /\ Range(written[VD]) = Range(prior) \cup Range(new)
                /\ Len(written[VD]) = Cardinality(Range(written[VD]))

\* C1 witness: prior ["Paris"], extracted ["Paris", "Tokyo"], stored a list of
\* two elements holding Paris and Tokyo.
C1_Witness ==
    /\ Wrote(1) /\ HadVisited(1)
    /\ existing_memory[1].value[VD] = <<"Paris">>
    /\ result[1][1] = TravelPreferences(ProfileA, <<"Paris", "Tokyo">>)
    /\ Range(store[Key(user[1])][VD]) = {"Paris", "Tokyo"}
    /\ Len(store[Key(user[1])][VD]) = 2

\* C2: over a sequence of turns every step leaves each stored record in
\* place and its set of visited destinations at least as large as before.
C2_VisitedOnlyGrows ==
    [][\A k \in DOMAIN store :
          k \in DOMAIN store' /\ VdSet(store[k]) \subseteq VdSet(store'[k])]_vars

\* C2 witness: a turn wrote over a record that held destinations, and the
\* stored set grew.
C2_Witness ==
    /\ Wrote(1)
    /\ Key(user[1]) \in DOMAIN hist[1].startStore
    /\ VdSet(hist[1].startStore[Key(user[1])]) # {}
    /\ VdSet(hist[1].startStore[Key(user[1])]) # VdSet(store[Key(user[1])])

\* C3: a turn whose extractor returned no candidate ends with the store as it
\* was at the start of the turn, no put made, and the messages as the
\* extraction step received them.
C3_EmptyExtractionIsNoOp ==
    \A t \in Turns :
        (pc[t] = "END" /\ result[t] = <<>>) =>
            /\ store = hist[t].startStore
            /\ hist[t].puts = 0
            /\ messages[t] = hist[t].before

\* C3 witness: such a turn, for a user who has a record.
C3_Witness ==
    /\ pc[1] = "END" /\ result[1] = <<>>
    /\ LastNode(1) = "Memory_Extraction"
    /\ Key(user[1]) \in DOMAIN store

\* C4 (as claimed): a first candidate that is not a valid record is caught in
\* the extraction step: no put, the store as before, and the turn reaches END.
C4_MalformedIsCaught ==
    \A t \in Turns :
        (Finished(t) /\ result[t] # <<>> /\ result[t][1] \in Malformed) =>
            /\ pc[t] = "END"
            /\ hist[t].puts = 0
            /\ store = hist[t].startStore

WithSummary == <<"travel_assistant", "booking_check", "summarize", "Memory_Extraction">>
WithoutSummary == <<"travel_assistant", "booking_check", "Memory_Extraction">>
IsPrefix(a, b) == Len(a) <= Len(b) /\ SubSeq(b, 1, Len(a)) = a
Count(seq, x) == Cardinality({i \in DOMAIN seq : seq[i] = x})

\* C6: the nodes run in the order travel_assistant, booking_check,
\* (summarize), Memory_Extraction; summarize follows booking_check exactly when
\* the message list booking_check left is longer than 25; a turn at END has run
\* Memory_Extraction exactly once, as its last node.
C6_BranchAndOrder ==
    \A t \in Turns :
        LET tr == hist[t].trace
        IN  /\ IsPrefix(tr, WithSummary) \/ IsPrefix(tr, WithoutSummary)
            /\ (Len(tr) = 2 /\ ~Finished(t)) =>
                  /\ pc[t] = (IF Len(messages[t]) > 25 THEN "summarize" ELSE "Memory_Extraction")
            /\ Len(tr) >= 3 => (tr[3] = "summarize" <=> hist[t].received[3] > 25)
            /\ pc[t] = "END" =>
                  /\ Count(tr, "Memory_Extraction") = 1
                  /\ tr \in {WithSummary, WithoutSummary}

\* C6 witness: a turn at END that went through summarize, entered with 26
\* messages.
C6_Witness ==
    /\ pc[1] = "END"
    /\ hist[1].trace = WithSummary
    /\ hist[1].received[3] = 26

\* a turn is running: it has started and has not ended
Running(t) == pc[t] \notin {"idle", "END", "error"}
NoNodeTwice(t) == \A n \in Nodes : Count(hist[t].trace, n) <= 1

\* a running turn is at a node that can run on the state it holds
CanStep(t) ==
    \/ pc[t] \in {"travel_assistant", "summarize", "Memory_Extraction", "Memory_Extraction:put"}
    \/ pc[t] = "booking_check" /\ messages[t] # <<>>
\* how far a turn has got: the nodes it has run, and within Memory_Extraction
\* whether the extractor has returned
Progress(t) ==
    2 * Len(hist[t].trace)
        + (IF pc[t] = "Memory_Extraction:put" THEN 1 ELSE IF Finished(t) THEN 2 ELSE 0)
MaxProgress == 2 * Cardinality(Nodes) + 2

\* C7 (as claimed): a running turn can always take its next step, no node
\* runs twice in a turn, and a turn that ends in an error got it from
\* travel_assistant or from Memory_Extraction.
C7_FatalOnlyFromGenerateOrExtract ==
    \A t \in Turns :
        /\ Running(t) => CanStep(t)
        /\ NoNodeTwice(t)
        /\ pc[t] = "error" => hist[t].errAt \in {"travel_assistant", "Memory_Extraction"}

\* C7 (amended): a running turn can always take its next step and every step
\* it takes brings it nearer to its end, so it ends, at END or in an error; no
\* node runs twice; an error comes from travel_assistant, from summarize or
\* from Memory_Extraction, never from booking_check.
C7_TurnEndsOrFails ==
    /\ [](\A t \in Turns :
            /\ Running(t) => CanStep(t)
            /\ NoNodeTwice(t)
            /\ Progress(t) <= MaxProgress
            /\ pc[t] = "error" <=> hist[t].errAt # "none"
            /\ hist[t].errAt \in {"none", "travel_assistant", "summarize", "Memory_Extraction"})
    /\ [][\A t \in Turns :
            (Running(t) /\ <<pc[t], hist[t]>>' # <<pc[t], hist[t]>>) =>
                Progress(t)' > Progress(t)]_vars

\* C7 witness: a turn ended by an error of the summarizer's model call.
C7_Witness ==
    /\ pc[1] = "error"
    /\ hist[1].errAt = "summarize"
    /\ hist[1].trace = <<"travel_assistant", "booking_check", "summarize">>

\* C8 (as claimed): after the summarizer ran on more than 25 messages the list
\* has three entries: the summary, then the last two messages it received.
C8_SummaryLeavesThree ==
    \A t \in Turns :
        (LastNode(t) = "summarize" /\ pc[t] = "Memory_Extraction"
            /\ Len(hist[t].before) > 25) =>
            LET b == hist[t].before
                m == messages[t]
            IN  /\ Len(m) = 3
                /\ m[1].type = "system"
                /\ IsPrefix(TRIP_SUMMARY_PREFIX, m[1].content)
                /\ m[2] = b[Len(b) - 1]
                /\ m[3] = b[Len(b)]

\* C9: a summarizer that receives at most 25 messages calls no model and
\* leaves the messages and the store as they are; the turn goes on to
\* Memory_Extraction.
C9_SummarizerNoOpAtMost25 ==
    [][\A t \in Turns :
          (pc[t] = "summarize" /\ Len(messages[t]) <= 25 /\ pc'[t] # "summarize") =>
              /\ messages'[t] = messages[t]
              /\ hist'[t].calls = hist[t].calls
              /\ pc'[t] = "Memory_Extraction"
              /\ store' = store]_vars

\* C9 witness: the summarizer has run on exactly 25 messages.
C9_Witness ==
    /\ LastNode(1) = "summarize"
    /\ Len(hist[1].before) = 25
    /\ pc[1] = "Memory_Extraction"

\* the replies that hold "book" or "reserve" in some case
Triggering == {BookFlight, Bookshelf, ReserveUpper}

\* C10: booking_check appends one message, the clarification, exactly when the
\* last message it received holds "book" or "reserve" in any case; the messages
\* it received stay as they were, in place; the turn goes on to the next node.
C10_BookingCheck ==
    \A t \in Turns :
        (LastNode(t) = "booking_check") =>
            LET b == hist[t].before
                m == messages[t]
            IN  /\ IsPrefix(b, m)
                /\ b[Len(b)].content \in Triggering =>
                      /\ Len(m) = Len(b) + 1
                      /\ m[Len(m)].type = "system"
                      /\ m[Len(m)].content = CLARIFICATION
                /\ b[Len(b)].content \notin Triggering => m = b
                /\ pc[t] \in {"summarize", "Memory_Extraction"}

\* C10 witness: the reply "A bookshelf" got the clarification appended.
C10_Witness ==
    /\ LastNode(1) = "booking_check"
    /\ hist[1].before[Len(hist[1].before)].content = Bookshelf
    /\ Len(messages[1]) = Len(hist[1].before) + 1
    /\ messages[1][Len(messages[1])].content = CLARIFICATION

\* C11: a failed model.invoke, in travel_assistant or in summarize, ends the
\* turn in an error; a turn that ended in an error hands no message back to
\* its caller, has made no put, and leaves the store as it was at its start.
C11_InferenceFailureIsFatal ==
    \A t \in Turns :
        /\ hist[t].errAt \in {"travel_assistant", "summarize"} => pc[t] = "error"
        /\ pc[t] = "error" =>
              /\ Returned(t) = <<>>
              /\ hist[t].puts = 0
              /\ store = hist[t].startStore

\* C11 witness: the summary call failed in a turn of a user who has a record.
C11_Witness ==
    /\ pc[1] = "error"
    /\ hist[1].errAt = "summarize"
    /\ hist[1].calls = 2
    /\ Key(user[1]) \in DOMAIN store

\* the destinations of the first candidate of turn t
Extracted(t) ==
    IF VD \in DOMAIN result[t][1].fields THEN Range(result[t][1].fields[VD]) ELSE {}

\* C12: with two turns of one user interleaved, the record a turn puts is
\* computed from the record that turn read at its get, whatever the other turn
\* has put since, and a put overwrites the whole stored record with it: the
\* stored record is always the one of the turn that put last.
C12_LastWriteWins ==
    /\ [](\A t \in Turns :
            Wrote(t) =>
                VdSet(hist[t].lastPut) =
                    (IF HadVisited(t) THEN Range(existing_memory[t].value[VD]) ELSE {})
                        \cup Extracted(t))
    /\ [][\A t \in Turns :
            hist'[t].puts > hist[t].puts =>
                /\ store' = store_put(store, Namespace(user[t]), TRAVEL_PREFS, hist'[t].lastPut)
                /\ store'[Key(user[t])] = hist'[t].lastPut]_vars

\* C12 witness: both turns read the same prior record ["Paris"]; turn 1 put
\* Paris and Tokyo, turn 2 put after it, and the final record has no Tokyo.
C12_Witness ==
    /\ Wrote(1) /\ Wrote(2)
    /\ user[1] = user[2]
    /\ existing_memory[1].kind = "Item"
    /\ existing_memory[1] = existing_memory[2]
    /\ "Tokyo" \in VdSet(hist[1].lastPut)
    /\ store[Key(user[1])] = hist[2].lastPut
    /\ "Tokyo" \notin VdSet(store[Key(user[1])])

\* the one place of user u's record in the store
RecordPlace(u) == <<<<"travel_memory", u>>, "travel_prefs">>

\* C13: every store.get and store.put of a turn for user u is on namespace
\* ("travel_memory", u) and key "travel_prefs"; the store holds at most one
\* record per user, and the records of the other users are as they were when
\* the turn started.
C13_OwnNamespaceOnly ==
    /\ DOMAIN store \subseteq {RecordPlace(u) : u \in Users}
    /\ \A t \in Turns :
          pc[t] # "idle" =>
              /\ hist[t].accessed \subseteq {RecordPlace(user[t])}
              /\ \A k \in (DOMAIN store \cup DOMAIN hist[t].startStore) \ {RecordPlace(user[t])} :
                    /\ k \in DOMAIN store /\ k \in DOMAIN hist[t].startStore
                    /\ store[k] = hist[t].startStore[k]

\* C13 witness: a turn for u2 wrote u2's record while u1's record, stored by
\* an earlier turn, is still what it was.
C13_Witness ==
    /\ Wrote(1)
    /\ user[1] = "u2"
    /\ hist[1].accessed = {RecordPlace("u2")}
    /\ DOMAIN store = {RecordPlace("u1"), RecordPlace("u2")}
    /\ store[RecordPlace("u2")] = hist[1].lastPut
    /\ store[RecordPlace("u1")] = hist[1].startStore[RecordPlace("u1")]
    /\ store[RecordPlace("u1")] # store[RecordPlace("u2")]

\* the destinations stored for user u in store s (none without a record)
StoredVd(s, u) == IF RecordPlace(u) \in DOMAIN s THEN VdSet(s[RecordPlace(u)]) ELSE {}

\* C14: a turn whose first candidate names no destination beyond those stored
\* at its start leaves the stored set of destinations as it was; and applying
\* the same candidate once more to the record just stored gives the same set.
C14_ExtractionIdempotent ==
    \A t \in Turns :
        Wrote(t) =>
            /\ Extracted(t) \subseteq StoredVd(hist[t].startStore, user[t]) =>
                  StoredVd(store, user[t]) = StoredVd(hist[t].startStore, user[t])
            /\ \A again \in updated_prefs(store_get(store, Namespace(user[t]), TRAVEL_PREFS),
                                           model_dump(FirstResponse(result[t])).value) :
                  VdSet(again) = StoredVd(store, user[t])

\* C14 witness: Paris and Tokyo stored, ["Paris"] extracted, Paris and Tokyo
\* stored after the turn.
C14_Witness ==
    /\ Wrote(1)
    /\ StoredVd(hist[1].startStore, user[1]) = {"Paris", "Tokyo"}
    /\ Extracted(1) = {"Paris"}
    /\ StoredVd(store, user[1]) = {"Paris", "Tokyo"}

\* C15: no stored record has a destination twice in visited_destinations,
\* whether or not a prior record (or a prior visited_destinations field) was
\* there when it was stored.
C15_NoDuplicates ==
    \A k \in DOMAIN store :
        VD \in DOMAIN store[k] => Len(store[k][VD]) = Cardinality(Range(store[k][VD]))

\* the fields of a record other than visited_destinations
OtherFields ==
    {"preferred_accommodation_types", "dietary_restrictions", "budget_range", "travel_style"}

\* C16: after a successful extraction each field of the stored record other
\* than visited_destinations is the first candidate's value, whatever the prior
\* record had there and whatever a second candidate says.
C16_OtherFieldsFromFirstCandidate ==
    \A t \in Turns :
        Wrote(t) =>
            \A f \in OtherFields :
                /\ f \in DOMAIN store[Key(user[t])]
                /\ store[Key(user[t])][f] = result[t][1].fields[f]

\* C16 witness: the prior record has the fields of one profile, the first of
\* two candidates those of the other, and the stored record has the latter.
C16_Witness ==
    /\ Wrote(1)
    /\ existing_memory[1].kind = "Item"
    /\ \A f \in OtherFields : existing_memory[1].value[f] = ProfileB[f]
    /\ result[1] = <<TravelPreferences(ProfileA, <<"Paris">>), SecondCandidate>>
    /\ \A f \in OtherFields : store[Key(user[1])][f] = ProfileA[f] /\ ProfileA[f] # ProfileB[f]

\* C17: in a turn that has not run summarize the messages the turn started
\* with stay in place as a prefix of the list; travel_assistant hands on the
\* list it received with exactly one message more, an assistant message; and
\* Memory_Extraction leaves the list it received as it is.
C17_AppendOnlyWithoutSummary ==
    \A t \in Turns :
        (pc[t] # "idle" /\ "summarize" \notin Range(hist[t].trace)) =>
            /\ IsPrefix(hist[t].startMessages, messages[t])
            /\ pc[t] = "booking_check" =>
                  /\ Len(messages[t]) = Len(hist[t].before) + 1
                  /\ SubSeq(messages[t], 1, Len(hist[t].before)) = hist[t].before
                  /\ messages[t][Len(messages[t])].type = "ai"
                  /\ hist[t].before = hist[t].startMessages
            /\ LastNode(t) = "Memory_Extraction" => messages[t] = hist[t].before

\* C17 witness: a turn without summarize ended after a put, with the reply and
\* the clarification after the message it started with.
C17_Witness ==
    /\ Wrote(1)
    /\ hist[1].trace = WithoutSummary
    /\ Len(hist[1].startMessages) = 1
    /\ Len(messages[1]) = Len(hist[1].startMessages) + 2
    /\ messages[1][1] = hist[1].startMessages[1]

\* C18: in turns run one after the other, the store changes only in the step
\* of Memory_Extraction that puts; travel_assistant, booking_check and
\* summarize leave it alone, so as long as the turn has not put, the store is
\* what it was when the turn started.
C18_OnlyExtractionWrites ==
    /\ [](\A t \in Turns :
            (pc[t] # "idle" /\ hist[t].puts = 0) => store = hist[t].startStore)
    /\ [][store' # store =>
            \E t \in Turns :
                /\ pc[t] = "Memory_Extraction:put"
                /\ pc'[t] = "END"
                /\ hist'[t].puts = hist[t].puts + 1
                /\ store' = store_put(store, Namespace(user[t]), TRAVEL_PREFS, hist'[t].lastPut)]_vars

\* C18 witness: a turn that ran all four nodes on a store that held a record
\* and changed the store at its put.
C18_Witness ==
    /\ Wrote(1)
    /\ hist[1].trace = WithSummary
    /\ hist[1].startStore # <<>>
    /\ store # hist[1].startStore

\* a summary message is in the list
HasSummary(msgs) ==
    \E i \in DOMAIN msgs :
        msgs[i].type = "system" /\ IsPrefix(TRIP_SUMMARY_PREFIX, msgs[i].content)

\* C19: summarize is entered with the list booking_check left, clarification
\* included, and that list is longer than 25; a turn that has run summarize
\* has made the summary call, and either failed in it or has the summary in
\* its list; and when booking_check received at most 25 messages and left
\* more than 25, summarize is the node that follows.
C19_EnteredMeansSummarized ==
    \A t \in Turns :
        LET tr == hist[t].trace
        IN  /\ pc[t] = "summarize" =>
                  /\ Len(messages[t]) > 25
                  /\ LastNode(t) = "booking_check"
            /\ "summarize" \in Range(tr) =>
                  /\ hist[t].received[3] > 25
                  /\ hist[t].calls = 2
                  /\ \/ pc[t] = "error" /\ hist[t].errAt = "summarize"
                     \/ HasSummary(messages[t]) /\ Len(messages[t]) > hist[t].received[3]
            /\ (Len(tr) >= 3 /\ hist[t].received[2] <= 25 /\ hist[t].received[3] > 25) =>
                  tr[3] = "summarize"

\* C19 witness: 24 messages at the start, 25 after the reply, 26 after the
\* clarification, and the turn went on to summarize and has the summary.
C19_Witness ==
    /\ pc[1] = "END"
    /\ hist[1].trace = WithSummary
    /\ SubSeq(hist[1].received, 1, 3) = <<24, 25, 26>>
    /\ HasSummary(messages[1])
    /\ ~HasSummary(hist[1].startMessages)

\* C20: in a turn whose summarize has returned, the reply travel_assistant
\* gave in that turn is in the update summarize returned, as one of the two
\* messages kept from the list it received, and it is in the message list
\* from then on, at END too, with or without a clarification after it.
C20_ReplySurvivesSummary ==
    \A t \in Turns :
        ("summarize" \in Range(hist[t].trace) /\ hist[t].errAt # "summarize") =>
            /\ hist[t].reply \in Range(messages[t])
            /\ hist[t].reply.type = "ai"
            /\ LastNode(t) = "summarize" =>
                  \A content \in Summaries :
                      LET update == summary_update(hist[t].before, content)
                      IN  /\ hist[t].reply \in Range(update)
                          /\ hist[t].reply \in Range(hist[t].before)
                          /\ hist[t].reply # update[1]

\* C20 witness: a turn through summarize at END whose reply asked for no
\* clarification, with the reply in the list.
C20_Witness ==
    /\ pc[1] = "END"
    /\ hist[1].trace = WithSummary
    /\ hist[1].received[3] = hist[1].received[2]
    /\ hist[1].reply.content = Weather
    /\ hist[1].reply \in Range(messages[1])
    /\ HasSummary(messages[1])

====
